---- MODULE Spec2Model ----
(***************************************************************************)
(* Model of mi-bot/app.py: the /chat handler (handle_chat), the per-user   *)
(* lock registry, the session store calls and the reply post-processing    *)
(* of generate_ia_response, the credential pool (ApiKeyManager) and the    *)
(* emoji filter (strip_emojis, contains_emoji).                            *)
(*                                                                         *)
(* A text is a sequence of Unicode code points (Python str), so that the   *)
(* regular expressions, str.strip, str.lower and the `in` substring test   *)
(* are computed character by character, as the interpreter computes them.  *)
(* Python's None is the value None below, a sequence no text equals.       *)
(***************************************************************************)
EXTENDS Integers, Sequences, FiniteSets, TLC

\* Number of /chat requests the model issues (waitress serves them on up to
\* 20 threads, so all of them can be in flight at once).
MaxRequests == 2

Requests == 1..MaxRequests

\* Number of credentials in COHERE_API_KEYS (the constructor refuses an empty
\* list).
NumKeys == 3

\* Number of concurrent calls made to the key manager, one per caller.
MaxKeyCalls == 3

KeyCallers == 1..MaxKeyCalls

\* Longest text given to the emoji filter.
MaxLen == 4

None == <<0 - 1>>

\* ------------------------------------------------------------------------
\* Literals of the program
\* ------------------------------------------------------------------------

\* "Holis busco novio y tú estas lindo \U0001f97a"
FIRST_MESSAGE_RESPONSE ==
    <<72, 111, 108, 105, 115, 32, 98, 117, 115, 99, 111, 32, 110, 111, 118,
      105, 111, 32, 121, 32, 116, 250, 32, 101, 115, 116, 97, 115, 32, 108,
      105, 110, 100, 111, 32, 129402>>

\* "El modelo ya no está disponible \U0001f605"
NOT_FOUND_REPLY ==
    <<69, 108, 32, 109, 111, 100, 101, 108, 111, 32, 121, 97, 32, 110, 111,
      32, 101, 115, 116, 225, 32, 100, 105, 115, 112, 111, 110, 105, 98, 108,
      101, 32, 128517>>

\* "mmm me perdi jaja \U0001f605"
ERROR_REPLY ==
    <<109, 109, 109, 32, 109, 101, 32, 112, 101, 114, 100, 105, 32, 106, 97,
      106, 97, 32, 128517>>

\* "[Recordatorio en línea]"
TRIGGER_RECORDATORIO ==
    <<91, 82, 101, 99, 111, 114, 100, 97, 116, 111, 114, 105, 111, 32, 101,
      110, 32, 108, 237, 110, 101, 97, 93>>

\* "es muy emparejado para ti"
TRIGGER_EMPAREJADO ==
    <<101, 115, 32, 109, 117, 121, 32, 101, 109, 112, 97, 114, 101, 106, 97,
      100, 111, 32, 112, 97, 114, 97, 32, 116, 105>>

\* "monedas de oro para saludarle"
TRIGGER_MONEDAS ==
    <<109, 111, 110, 101, 100, 97, 115, 32, 100, 101, 32, 111, 114, 111, 32,
      112, 97, 114, 97, 32, 115, 97, 108, 117, 100, 97, 114, 108, 101>>

\* "Te he seguido. Podemos ser amigos"
TRIGGER_SEGUIDO ==
    <<84, 101, 32, 104, 101, 32, 115, 101, 103, 117, 105, 100, 111, 46, 32,
      80, 111, 100, 101, 109, 111, 115, 32, 115, 101, 114, 32, 97, 109, 105,
      103, 111, 115>>

\* "Hola cielo como estas"
RESPONSE_HOLA_CIELO ==
    <<72, 111, 108, 97, 32, 99, 105, 101, 108, 111, 32, 99, 111, 109, 111,
      32, 101, 115, 116, 97, 115>>

\* "Te he seguido"
RESPONSE_TE_HE_SEGUIDO ==
    <<84, 101, 32, 104, 101, 32, 115, 101, 103, 117, 105, 100, 111>>

\* BotConfig.PREDEFINED_RESPONSES, a dict: its items() come in insertion order.
PREDEFINED_RESPONSES ==
    << [trigger |-> TRIGGER_RECORDATORIO, response |-> RESPONSE_HOLA_CIELO],
       [trigger |-> TRIGGER_EMPAREJADO,   response |-> FIRST_MESSAGE_RESPONSE],
       [trigger |-> TRIGGER_MONEDAS,      response |-> FIRST_MESSAGE_RESPONSE],
       [trigger |-> TRIGGER_SEGUIDO,      response |-> RESPONSE_TE_HE_SEGUIDO] >>

\* BotConfig.FORBIDDEN_WORDS: "sexi", "hago"
FORBIDDEN_WORDS ==
    << <<115, 101, 120, 105>>, <<104, 97, 103, 111>> >>

\* BotConfig.IGNORED_USERS: "game of thrones"
IGNORED_USERS ==
    { <<103, 97, 109, 101, 32, 111, 102, 32, 116, 104, 114, 111, 110, 101,
        115>> }

\* The fillers of random.choice in generate_ia_response:
\* "jaja si", "ok", "dale", "listo"
FILLERS ==
    << <<106, 97, 106, 97, 32, 115, 105>>, <<111, 107>>,
       <<100, 97, 108, 101>>, <<108, 105, 115, 116, 111>> >>

\* RANDOM_EMOJIS: a space and U+1F609, U+1F618, U+1F60A, U+1F525, U+1F608,
\* U+1F60F, U+1F97A
RANDOM_EMOJIS ==
    << <<32, 128521>>, <<32, 128536>>, <<32, 128522>>, <<32, 128293>>,
       <<32, 128520>>, <<32, 128527>>, <<32, 129402>> >>

\* ------------------------------------------------------------------------
\* Text primitives of the interpreter, over code points
\* ------------------------------------------------------------------------

\* The character class of EMOJI_PATTERN: U+1F600-1F64F, U+1F300-1F5FF,
\* U+1F680-1F6FF, U+1F1E0-1F1FF.
InEmojiPattern(c) ==
    \/ c \in 128512..128591
    \/ c \in 127744..128511
    \/ c \in 128640..128767
    \/ c \in 127456..127487

\* str.isspace of one character (what str.strip() removes).
IsSpace(c) ==
    \/ c \in 9..13
    \/ c \in 28..32
    \/ c \in {133, 160, 5760, 8232, 8233, 8239, 8287, 12288}
    \/ c \in 8192..8202

\* \w of a str pattern, for Latin-1 code points and the emoji blocks (the
\* emoji code points are symbols, not alphanumerics).
IsWordChar(c) ==
    \/ c \in 48..57
    \/ c \in 65..90
    \/ c = 95
    \/ c \in 97..122
    \/ c \in {170, 178, 179, 181, 185, 186, 188, 189, 190}
    \/ c \in 192..214
    \/ c \in 216..246
    \/ c \in 248..255

\* str.lower of one character, for Latin-1 code points and the emoji blocks.
LowerChar(c) ==
    IF c \in 65..90 \/ c \in 192..214 \/ c \in 216..222 THEN c + 32 ELSE c

Lower(text) == [i \in 1..Len(text) |-> LowerChar(text[i])]

SetMin(S) == CHOOSE x \in S : \A y \in S : x <= y
SetMax(S) == CHOOSE x \in S : \A y \in S : x >= y

\* str.strip(): drop leading and trailing whitespace.
Strip(text) ==
    LET keep == {i \in 1..Len(text) : ~IsSpace(text[i])}
    IN  IF keep = {} THEN <<>> ELSE SubSeq(text, SetMin(keep), SetMax(keep))

\* `needle in haystack` of two str.
IsSubstring(needle, haystack) ==
    \E i \in 0..(Len(haystack) - Len(needle)) :
        SubSeq(haystack, i + 1, i + Len(needle)) = needle

\* Is position p (1..Len) of text a \w character; FALSE outside the text.
WordAt(text, p) == p \in 1..Len(text) /\ IsWordChar(text[p])

\* re.search(r'\b' + re.escape(word) + r'\b', text): word occurs with a word
\* boundary on both sides (\b holds between positions p and p+1 when exactly
\* one of them is a \w character).
WordSearch(word, text) ==
    \E i \in 0..(Len(text) - Len(word)) :
        /\ SubSeq(text, i + 1, i + Len(word)) = word
        /\ WordAt(text, i) # WordAt(text, i + 1)
        /\ WordAt(text, i + Len(word)) # WordAt(text, i + Len(word) + 1)

\* ------------------------------------------------------------------------
\* Content filters
\* ------------------------------------------------------------------------

contains_emoji(text) == \E i \in 1..Len(text) : InEmojiPattern(text[i])

strip_emojisTrimFirst(text) ==
    SelectSeq(Strip(text), LAMBDA c : ~InEmojiPattern(c))

strip_emojis(text) ==
    Strip(SelectSeq(text, LAMBDA c : ~InEmojiPattern(c)))

contains_forbidden_wordCaseSensitive(text) ==
    \E k \in 1..Len(FORBIDDEN_WORDS) : WordSearch(FORBIDDEN_WORDS[k], text)

contains_forbidden_word(text) ==
    LET text_lower == Lower(text)
    IN  \E k \in 1..Len(FORBIDDEN_WORDS) :
            WordSearch(FORBIDDEN_WORDS[k], text_lower)

\* The response of the first trigger, in the table's order, that occurs in
\* the message; None when no trigger occurs.
handle_system_message(message) ==
    LET hits == {k \in 1..Len(PREDEFINED_RESPONSES) :
                    IsSubstring(PREDEFINED_RESPONSES[k].trigger, message)}
    IN  IF hits = {} THEN None
        ELSE PREDEFINED_RESPONSES[SetMin(hits)].response

\* ------------------------------------------------------------------------
\* Inputs of the model
\* ------------------------------------------------------------------------

\* user ids "X" and "Y", and " Game Of Thrones " (ignored once trimmed and
\* lower-cased)
UID_X == <<88>>
UID_Y == <<89>>
UID_IGNORED ==
    <<32, 71, 97, 109, 101, 32, 79, 102, 32, 84, 104, 114, 111, 110, 101,
      115, 32>>

StoredUsers == {UID_X, UID_Y}

\* "hola"
MSG_HOLA == <<104, 111, 108, 97>>

\* "Te he seguido. Podemos ser amigos [Recordatorio en línea]": two triggers,
\* the one that comes later in the trigger table first in the message
MSG_TWO_TRIGGERS ==
    <<84, 101, 32, 104, 101, 32, 115, 101, 103, 117, 105, 100, 111, 46, 32,
      80, 111, 100, 101, 109, 111, 115, 32, 115, 101, 114, 32, 97, 109, 105,
      103, 111, 115, 32, 91, 82, 101, 99, 111, 114, 100, 97, 116, 111, 114,
      105, 111, 32, 101, 110, 32, 108, 237, 110, 101, 97, 93>>

\* The request bodies: empty, not JSON, JSON that is no object, and objects
\* with or without "user_id" and "message".
Bodies ==
    {[kind |-> k, user_id |-> None, message |-> None] :
        k \in {"empty", "invalid", "not_object"}}
    \cup {[kind |-> "object", user_id |-> None, message |-> MSG_HOLA],
          [kind |-> "object", user_id |-> UID_X, message |-> <<>>],
          [kind |-> "object", user_id |-> UID_IGNORED, message |-> MSG_HOLA]}
    \cup {[kind |-> "object", user_id |-> u, message |-> m] :
            u \in StoredUsers, m \in {MSG_HOLA, MSG_TWO_TRIGGERS}}

\* "hola \U0001f609": "hola" with the first emoji of RANDOM_EMOJIS appended
HOLA_WINK == <<104, 111, 108, 97, 32, 128521>>

\* What response.text of the provider can be: "", " hola ", the opening line,
\* "Es SEXI", "hola \U0001f609", "ok \U0001f97a", "\U0001f600",
\* "se\U0001f600xi"
ProviderTexts ==
    { <<>>,
      <<32, 104, 111, 108, 97, 32>>,
      FIRST_MESSAGE_RESPONSE,
      <<69, 115, 32, 83, 69, 88, 73>>,
      HOLA_WINK,
      <<111, 107, 32, 129402>>,
      <<128512>>,
      <<115, 101, 128512, 120, 105>> }

\* The outcomes of current_cohere_client.chat(...): a text, NotFoundError,
\* or any other exception.
ProviderOutcomes ==
    {[kind |-> "text", text |-> t] : t \in ProviderTexts}
    \cup {[kind |-> k, text |-> <<>>] : k \in {"not_found", "error"}}

\* ------------------------------------------------------------------------
\* generate_ia_response, step by step
\* ------------------------------------------------------------------------

Turn(role, message) == [role |-> role, message |-> message]

\* cohere_history: every stored role other than "USER" becomes "CHATBOT".
CohereHistory(history) ==
    [i \in 1..Len(history) |->
        Turn(IF history[i].role = "USER" THEN "USER" ELSE "CHATBOT",
             history[i].message)]

\* The message of the last CHATBOT turn, None when there is none.
last_bot_message(history) ==
    LET cohere_history == CohereHistory(history)
        bots == {i \in 1..Len(cohere_history) :
                    cohere_history[i].role = "CHATBOT"}
    IN  IF bots = {} THEN None ELSE cohere_history[SetMax(bots)].message

\* ia_reply after the try/except around the provider call.
ProviderReply(outcome) ==
    CASE outcome.kind = "text"      -> Strip(outcome.text)
      [] outcome.kind = "not_found" -> NOT_FOUND_REPLY
      [] OTHER                      -> ERROR_REPLY

\* The empty / repeated / forbidden reply is replaced by the chosen filler.
FilterReply(ia_reply, last, filler) ==
    LET is_repeat    == ia_reply # <<>> /\ ia_reply = last
        is_forbidden == contains_forbidden_word(ia_reply)
    IN  IF ia_reply = <<>> \/ is_repeat \/ is_forbidden
        THEN filler ELSE ia_reply

\* The emoji step: the reply and the new emoji_last_message.
AlternateEmoji(ia_reply, emoji_last_message, emoji) ==
    IF ~emoji_last_message
    THEN [reply |-> IF contains_emoji(ia_reply) THEN ia_reply
                    ELSE ia_reply \o emoji,
          emoji_last_message |-> TRUE]
    ELSE [reply |-> strip_emojis(ia_reply), emoji_last_message |-> FALSE]

\* The whole function: the session it leaves and the reply it returns, for
\* one provider outcome and one result of each random.choice.
generate_ia_response(user_message, user_session, outcome, filler, emoji) ==
    LET last      == last_bot_message(user_session.history)
        candidate == ProviderReply(outcome)
        filtered  == FilterReply(candidate, last, filler)
        final     == AlternateEmoji(filtered, user_session.emoji_last_message,
                                    emoji)
    IN  [session |->
            [history |-> user_session.history
                            \o <<Turn("USER", user_message),
                                 Turn("CHATBOT", final.reply)>>,
             emoji_last_message |-> final.emoji_last_message],
         reply     |-> final.reply,
         last      |-> last,
         candidate |-> candidate,
         filtered  |-> filtered]

\* The branch handle_chat takes once the session is loaded.
Branch(user_session, user_message) ==
    IF user_session.history = <<>> THEN "first"
    ELSE IF handle_system_message(user_message) \notin {None, <<>>}
         THEN "trigger"
    ELSE "generate"

\* ------------------------------------------------------------------------
\* State
\* ------------------------------------------------------------------------

VARIABLES
    pc,              \* where each request is in handle_chat
    user_id,         \* handle_chat's local user_id, per request
    user_message,    \* handle_chat's local user_message, per request
    user_lock,       \* handle_chat's local user_lock: a lock handle (0: unset)
    user_session,    \* handle_chat's local user_session, per request
    response,        \* what handle_chat returned, per request
    locks_dict_lock, \* the request holding locks_dict_lock, 0 when free
    user_locks,      \* the dict user_locks: user id -> lock handle
    lock_owner,      \* per lock handle created, the request holding it or 0
    db,              \* conversation_histories: user id -> <<>> or <<row>>
    acq_order,       \* observer: per user id, the requests in the order in
                     \* which they acquired a per-user lock
    audit,           \* observer: per request, what its execution did
    db_by,           \* observer: per user id, which path wrote each stored
                     \* pair of turns
    store_failed,    \* observer: the user ids for which a store call failed
    current_index,   \* ApiKeyManager.current_index
    key_lock,        \* ApiKeyManager.lock: the caller holding it, 0 when free
    kpc,             \* where each caller of the key manager is in its call
    kcall,           \* observer: the method each caller called
    kproduced,       \* observer: the index each rotate_to_next_key call set
    kret,            \* what each key manager call returned
    fpc,             \* where the run of the emoji filter is
    fx,              \* the text given to strip_emojis
    fy,              \* strip_emojis(fx)
    fz               \* strip_emojis(fy)

chat_vars == <<pc, user_id, user_message, user_lock, user_session, response,
               locks_dict_lock, user_locks, lock_owner, db, acq_order, audit,
               db_by, store_failed>>

key_vars == <<current_index, key_lock, kpc, kcall, kproduced, kret>>

filter_vars == <<fpc, fx, fy, fz>>

vars == <<chat_vars, key_vars, filter_vars>>

default_history == [history |-> <<>>, emoji_last_message |-> FALSE]

NoResponse == [kind |-> "none", status |-> 0, text |-> <<>>]

\* A response of handle_chat: the fixed texts are named by kind
\* ("no_data", "bad_json", "missing_params", "ignored", "server_error"), a
\* reply carries its text.
Response(kind, status, text) == [kind |-> kind, status |-> status, text |-> text]

\* No body read yet.
NoBody == [kind |-> "none", user_id |-> None, message |-> None]

NoAudit ==
    [path |-> "none", provider_calls |-> 0, loaded |-> None, by |-> <<>>,
     reply |-> None,
     last |-> None, candidate |-> None, filtered |-> None,
     flag_before |-> FALSE, save |-> "none", outcome |-> "none",
     body |-> NoBody]

\* The rows the store holds when the process starts: none for "X"; for "Y"
\* the row that two earlier requests "hola" of Y left: the first answered by
\* the opening line, the second by the provider's "hola", to which " \U0001f609"
\* was appended (the same two requests of X lead to the same row, see
\* SeedRowReached).
InitialRows ==
    [u \in StoredUsers |->
        IF u = UID_Y
        THEN << [history |-> <<Turn("USER", MSG_HOLA),
                               Turn("CHATBOT", FIRST_MESSAGE_RESPONSE),
                               Turn("USER", MSG_HOLA),
                               Turn("CHATBOT", HOLA_WINK)>>,
                 emoji_last_message |-> TRUE] >>
        ELSE <<>>]

ChatInit ==
    /\ pc = [r \in Requests |-> "idle"]
    /\ user_id = [r \in Requests |-> None]
    /\ user_message = [r \in Requests |-> None]
    /\ user_lock = [r \in Requests |-> 0]
    /\ user_session = [r \in Requests |-> default_history]
    /\ response = [r \in Requests |-> NoResponse]
    /\ locks_dict_lock = 0
    /\ user_locks = <<>>
    /\ lock_owner = <<>>
    /\ db = InitialRows
    /\ acq_order = [u \in StoredUsers |-> <<>>]
    /\ audit = [r \in Requests |-> NoAudit]
    /\ db_by = [u \in StoredUsers |->
                    IF u = UID_Y THEN <<"first", "generated">> ELSE <<>>]
    /\ store_failed = {}

\* ApiKeyManager.keys: the credentials "k1", "k2", ... of the pool.
keys == [i \in 1..NumKeys |-> <<107, 48 + i>>]

\* ApiKeyManager.__init__: the pool starts at its first credential.
KeyManagerInit ==
    /\ current_index = 0
    /\ key_lock = 0
    /\ kpc = [t \in KeyCallers |-> "idle"]
    /\ kcall = [t \in KeyCallers |-> "none"]
    /\ kproduced = [t \in KeyCallers |-> 0 - 1]
    /\ kret = [t \in KeyCallers |-> None]

\* No run of the emoji filter is in progress.
FilterIdle ==
    /\ fpc = "off"
    /\ fx = None
    /\ fy = None
    /\ fz = None

Init == ChatInit /\ KeyManagerInit /\ FilterIdle

\* ------------------------------------------------------------------------
\* handle_chat
\* ------------------------------------------------------------------------

ValidateNoTrim(body) ==
    IF body.kind = "empty" THEN Response("no_data", 400, <<>>)
    ELSE IF body.kind = "invalid" THEN Response("bad_json", 400, <<>>)
    ELSE IF body.kind = "not_object" THEN Response("server_error", 500, <<>>)
    ELSE IF body.user_id \in {None, <<>>} \/ body.message \in {None, <<>>}
         THEN Response("missing_params", 400, <<>>)
    ELSE IF body.user_id \in IGNORED_USERS
         THEN Response("ignored", 200, <<>>)
    ELSE NoResponse

\* Lines 221-236: read and validate the body.
Validate(body) ==
    IF body.kind = "empty" THEN Response("no_data", 400, <<>>)
    ELSE IF body.kind = "invalid" THEN Response("bad_json", 400, <<>>)
    ELSE IF body.kind = "not_object" THEN Response("server_error", 500, <<>>)
    ELSE IF body.user_id \in {None, <<>>} \/ body.message \in {None, <<>>}
         THEN Response("missing_params", 400, <<>>)
    ELSE IF Lower(Strip(body.user_id)) \in IGNORED_USERS
         THEN Response("ignored", 200, <<>>)
    ELSE NoResponse

Receive(r) ==
    /\ pc[r] = "idle"
    /\ \E body \in Bodies :
        /\ LET verdict == Validate(body)
           IN  IF verdict # NoResponse
               THEN /\ response' = [response EXCEPT ![r] = verdict]
                    /\ pc' = [pc EXCEPT ![r] = "done"]
                    /\ UNCHANGED <<user_id, user_message>>
               ELSE /\ user_id' = [user_id EXCEPT ![r] = body.user_id]
                    /\ user_message' =
                           [user_message EXCEPT ![r] = body.message]
                    /\ pc' = [pc EXCEPT ![r] = "registry"]
                    /\ UNCHANGED response
        /\ audit' = [audit EXCEPT ![r].body = body]
    /\ UNCHANGED <<user_lock, user_session, locks_dict_lock, user_locks,
                   lock_owner, db, acq_order, db_by, store_failed>>
    /\ UNCHANGED <<key_vars, filter_vars>>

\* Line 237: with locks_dict_lock (blocks while another request holds it).
AcquireRegistry(r) ==
    /\ pc[r] = "registry"
    /\ locks_dict_lock = 0
    /\ locks_dict_lock' = r
    /\ pc' = [pc EXCEPT ![r] = "resolve"]
    /\ UNCHANGED <<user_id, user_message, user_lock, user_session, response,
                   user_locks, lock_owner, db, acq_order, audit, db_by,
                   store_failed>>
    /\ UNCHANGED <<key_vars, filter_vars>>

ResolveLockShared(r) ==
    /\ pc[r] = "resolve"
    /\ lock_owner' = IF lock_owner = <<>> THEN <<0>> ELSE lock_owner
    /\ user_locks' = [u \in DOMAIN user_locks \cup {user_id[r]} |-> 1]
    /\ user_lock' = [user_lock EXCEPT ![r] = 1]
    /\ pc' = [pc EXCEPT ![r] = "unregistry"]
    /\ UNCHANGED <<user_id, user_message, user_session, response,
                   locks_dict_lock, db, acq_order, audit, db_by, store_failed>>
    /\ UNCHANGED <<key_vars, filter_vars>>

ResolveLockAlwaysNew(r) ==
    /\ pc[r] = "resolve"
    /\ lock_owner' = Append(lock_owner, 0)
    /\ user_locks' = [u \in DOMAIN user_locks \cup {user_id[r]} |->
                        IF u = user_id[r] THEN Len(lock_owner) + 1
                        ELSE user_locks[u]]
    /\ user_lock' = [user_lock EXCEPT ![r] = Len(lock_owner) + 1]
    /\ pc' = [pc EXCEPT ![r] = "unregistry"]
    /\ UNCHANGED <<user_id, user_message, user_session, response,
                   locks_dict_lock, db, acq_order, audit, db_by, store_failed>>
    /\ UNCHANGED <<key_vars, filter_vars>>

\* Lines 238-240: create the user's lock when the dict has none, read it.
ResolveLock(r) ==
    /\ pc[r] = "resolve"
    /\ IF user_id[r] \notin DOMAIN user_locks
       THEN /\ lock_owner' = Append(lock_owner, 0)
            /\ user_locks' = [u \in DOMAIN user_locks \cup {user_id[r]} |->
                                IF u = user_id[r] THEN Len(lock_owner) + 1
                                ELSE user_locks[u]]
       ELSE UNCHANGED <<lock_owner, user_locks>>
    /\ user_lock' = [user_lock EXCEPT ![r] = user_locks'[user_id[r]]]
    /\ pc' = [pc EXCEPT ![r] = "unregistry"]
    /\ UNCHANGED <<user_id, user_message, user_session, response,
                   locks_dict_lock, db, acq_order, audit, db_by, store_failed>>
    /\ UNCHANGED <<key_vars, filter_vars>>

\* End of the with locks_dict_lock block.
ReleaseRegistry(r) ==
    /\ pc[r] = "unregistry"
    /\ locks_dict_lock' = 0
    /\ pc' = [pc EXCEPT ![r] = "acquire"]
    /\ UNCHANGED <<user_id, user_message, user_lock, user_session, response,
                   user_locks, lock_owner, db, acq_order, audit, db_by,
                   store_failed>>
    /\ UNCHANGED <<key_vars, filter_vars>>

AcquireUserLockNoWait(r) ==
    /\ pc[r] = "acquire"
    /\ lock_owner' = [lock_owner EXCEPT ![user_lock[r]] = r]
    /\ acq_order' = [acq_order EXCEPT ![user_id[r]] = Append(@, r)]
    /\ pc' = [pc EXCEPT ![r] = "load"]
    /\ UNCHANGED <<user_id, user_message, user_lock, user_session, response,
                   locks_dict_lock, user_locks, db, audit, db_by,
                   store_failed>>
    /\ UNCHANGED <<key_vars, filter_vars>>

\* Line 242: with user_lock (blocks while another request holds the handle).
AcquireUserLock(r) ==
    /\ pc[r] = "acquire"
    /\ lock_owner[user_lock[r]] = 0
    /\ lock_owner' = [lock_owner EXCEPT ![user_lock[r]] = r]
    /\ acq_order' = [acq_order EXCEPT ![user_id[r]] = Append(@, r)]
    /\ pc' = [pc EXCEPT ![r] = "load"]
    /\ UNCHANGED <<user_id, user_message, user_lock, user_session, response,
                   locks_dict_lock, user_locks, db, audit, db_by,
                   store_failed>>
    /\ UNCHANGED <<key_vars, filter_vars>>

\* get_user_history: the stored row, or default_history when there is none.
get_user_history(rows) ==
    IF rows = <<>> THEN default_history
    ELSE [history |-> rows[1].history,
          emoji_last_message |-> rows[1].emoji_last_message]

\* Line 243, the store answering.
LoadHistory(r) ==
    /\ pc[r] = "load"
    /\ user_session' = [user_session EXCEPT
                            ![r] = get_user_history(db[user_id[r]])]
    /\ audit' = [audit EXCEPT ![r].loaded = user_session'[r].history,
                              ![r].by = db_by[user_id[r]],
                              ![r].flag_before =
                                  user_session'[r].emoji_last_message]
    /\ pc' = [pc EXCEPT ![r] = "loaded"]
    /\ UNCHANGED <<user_id, user_message, user_lock, response,
                   locks_dict_lock, user_locks, lock_owner, db, acq_order,
                   db_by, store_failed>>
    /\ UNCHANGED <<key_vars, filter_vars>>

\* Line 243, get_db_connection or the query raising: the exception leaves
\* the with block and reaches the except of line 267.
LoadFails(r) ==
    /\ pc[r] = "load"
    /\ response' = [response EXCEPT
                        ![r] = Response("server_error", 500, <<>>)]
    /\ store_failed' = store_failed \cup {user_id[r]}
    /\ pc' = [pc EXCEPT ![r] = "release"]
    /\ UNCHANGED <<user_id, user_message, user_lock, user_session,
                   locks_dict_lock, user_locks, lock_owner, db, acq_order,
                   audit, db_by>>
    /\ UNCHANGED <<key_vars, filter_vars>>

\* Lines 245-250: the first turn of a user.
FirstTurn(r) ==
    /\ pc[r] = "loaded"
    /\ Branch(user_session[r], user_message[r]) = "first"
    /\ user_session' = [user_session EXCEPT ![r] =
            [history |-> user_session[r].history
                            \o <<Turn("USER", user_message[r]),
                                 Turn("CHATBOT", FIRST_MESSAGE_RESPONSE)>>,
             emoji_last_message |-> contains_emoji(FIRST_MESSAGE_RESPONSE)]]
    /\ response' = [response EXCEPT
                        ![r] = Response("reply", 200, FIRST_MESSAGE_RESPONSE)]
    /\ audit' = [audit EXCEPT ![r].path = "first",
                              ![r].reply = FIRST_MESSAGE_RESPONSE,
                              ![r].by = Append(@, "first")]
    /\ pc' = [pc EXCEPT ![r] = "save"]
    /\ UNCHANGED <<user_id, user_message, user_lock, locks_dict_lock,
                   user_locks, lock_owner, db, acq_order, db_by,
                   store_failed>>
    /\ UNCHANGED <<key_vars, filter_vars>>

\* Lines 255-259: a trigger in the message.
TriggerReply(r) ==
    /\ pc[r] = "loaded"
    /\ Branch(user_session[r], user_message[r]) = "trigger"
    /\ LET system_response == handle_system_message(user_message[r])
       IN  /\ user_session' = [user_session EXCEPT ![r] =
                [history |-> user_session[r].history
                                \o <<Turn("USER", user_message[r]),
                                     Turn("CHATBOT", system_response)>>,
                 emoji_last_message |-> contains_emoji(system_response)]]
           /\ response' = [response EXCEPT
                               ![r] = Response("reply", 200, system_response)]
    /\ audit' = [audit EXCEPT ![r].path = "trigger",
                              ![r].reply =
                                  handle_system_message(user_message[r]),
                              ![r].by = Append(@, "trigger")]
    /\ pc' = [pc EXCEPT ![r] = "save"]
    /\ UNCHANGED <<user_id, user_message, user_lock, locks_dict_lock,
                   user_locks, lock_owner, db, acq_order, db_by,
                   store_failed>>
    /\ UNCHANGED <<key_vars, filter_vars>>

\* Lines 263, 169-186: generate_ia_response sends the chat request.
CallProvider(r) ==
    /\ pc[r] = "loaded"
    /\ Branch(user_session[r], user_message[r]) = "generate"
    /\ audit' = [audit EXCEPT ![r].path = "generated",
                              ![r].provider_calls = @ + 1]
    /\ pc' = [pc EXCEPT ![r] = "generating"]
    /\ UNCHANGED <<user_id, user_message, user_lock, user_session, response,
                   locks_dict_lock, user_locks, lock_owner, db, acq_order,
                   db_by, store_failed>>
    /\ UNCHANGED <<key_vars, filter_vars>>

\* Lines 187-213: the provider answers or raises, the reply is filtered,
\* given or stripped of its emoji and appended.
ProviderReturns(r) ==
    /\ pc[r] = "generating"
    /\ \E outcome \in ProviderOutcomes :
       \E f \in 1..Len(FILLERS) :
       \E e \in 1..Len(RANDOM_EMOJIS) :
        LET g == generate_ia_response(user_message[r], user_session[r],
                                      outcome, FILLERS[f], RANDOM_EMOJIS[e])
        IN  /\ user_session' = [user_session EXCEPT ![r] = g.session]
            /\ response' = [response EXCEPT
                                ![r] = Response("reply", 200, g.reply)]
            /\ audit' = [audit EXCEPT ![r].outcome = outcome.kind,
                                      ![r].last = g.last,
                                      ![r].candidate = g.candidate,
                                      ![r].filtered = g.filtered,
                                      ![r].reply = g.reply,
                                      ![r].by = Append(@, "generated")]
    /\ pc' = [pc EXCEPT ![r] = "save"]
    /\ UNCHANGED <<user_id, user_message, user_lock, locks_dict_lock,
                   user_locks, lock_owner, db, acq_order, db_by,
                   store_failed>>
    /\ UNCHANGED <<key_vars, filter_vars>>

\* save_user_history, the upsert committed.
SaveHistory(r) ==
    /\ pc[r] = "save"
    /\ db' = [db EXCEPT ![user_id[r]] =
                << [history |-> user_session[r].history,
                    emoji_last_message |->
                        user_session[r].emoji_last_message] >>]
    /\ db_by' = [db_by EXCEPT ![user_id[r]] = audit[r].by]
    /\ audit' = [audit EXCEPT ![r].save = "saved"]
    /\ pc' = [pc EXCEPT ![r] = "release"]
    /\ UNCHANGED <<user_id, user_message, user_lock, user_session, response,
                   locks_dict_lock, user_locks, lock_owner, acq_order,
                   store_failed>>
    /\ UNCHANGED <<key_vars, filter_vars>>

\* save_user_history, lines 138-150: execute or commit raises inside the
\* try; the except logs it and the function returns normally.
SaveCommitFails(r) ==
    /\ pc[r] = "save"
    /\ audit' = [audit EXCEPT ![r].save = "commit_failed"]
    /\ store_failed' = store_failed \cup {user_id[r]}
    /\ pc' = [pc EXCEPT ![r] = "release"]
    /\ UNCHANGED <<user_id, user_message, user_lock, user_session, response,
                   locks_dict_lock, user_locks, lock_owner, db, acq_order,
                   db_by>>
    /\ UNCHANGED <<key_vars, filter_vars>>

\* save_user_history, line 137: get_db_connection raises before the try
\* block is entered, so the exception leaves save_user_history and
\* handle_chat's with block and reaches the except of line 267.
SaveConnectFails(r) ==
    /\ pc[r] = "save"
    /\ audit' = [audit EXCEPT ![r].save = "connect_failed"]
    /\ store_failed' = store_failed \cup {user_id[r]}
    /\ response' = [response EXCEPT
                        ![r] = Response("server_error", 500, <<>>)]
    /\ pc' = [pc EXCEPT ![r] = "release"]
    /\ UNCHANGED <<user_id, user_message, user_lock, user_session,
                   locks_dict_lock, user_locks, lock_owner, db, acq_order,
                   db_by>>
    /\ UNCHANGED <<key_vars, filter_vars>>

ReleaseUserLockOnReturnOnly(r) ==
    /\ pc[r] = "release"
    /\ lock_owner' = [lock_owner EXCEPT ![user_lock[r]] =
                            IF response[r].kind = "server_error" THEN @ ELSE 0]
    /\ pc' = [pc EXCEPT ![r] = "done"]
    /\ UNCHANGED <<user_id, user_message, user_lock, user_session, response,
                   locks_dict_lock, user_locks, db, acq_order, audit, db_by,
                   store_failed>>
    /\ UNCHANGED <<key_vars, filter_vars>>

\* The with user_lock block is left, by return or by exception.
ReleaseUserLock(r) ==
    /\ pc[r] = "release"
    /\ lock_owner' = [lock_owner EXCEPT ![user_lock[r]] = 0]
    /\ pc' = [pc EXCEPT ![r] = "done"]
    /\ UNCHANGED <<user_id, user_message, user_lock, user_session, response,
                   locks_dict_lock, user_locks, db, acq_order, audit, db_by,
                   store_failed>>
    /\ UNCHANGED <<key_vars, filter_vars>>

Next ==
    \E r \in Requests :
        \/ Receive(r)
        \/ AcquireRegistry(r)
        \/ ResolveLock(r)
        \/ ReleaseRegistry(r)
        \/ AcquireUserLock(r)
        \/ LoadHistory(r)
        \/ LoadFails(r)
        \/ FirstTurn(r)
        \/ TriggerReply(r)
        \/ CallProvider(r)
        \/ ProviderReturns(r)
        \/ SaveHistory(r)
        \/ SaveCommitFails(r)
        \/ SaveConnectFails(r)
        \/ ReleaseUserLock(r)

Spec == Init /\ [][Next]_vars

\* The steps of request r once it has been read: each request runs on a
\* thread of its own that the interpreter keeps scheduling, and every call
\* it makes (a lock that is free, the store, the provider) returns or raises.
Handle(r) ==
    \/ AcquireRegistry(r)
    \/ ResolveLock(r)
    \/ ReleaseRegistry(r)
    \/ AcquireUserLock(r)
    \/ LoadHistory(r)
    \/ LoadFails(r)
    \/ FirstTurn(r)
    \/ TriggerReply(r)
    \/ CallProvider(r)
    \/ ProviderReturns(r)
    \/ SaveHistory(r)
    \/ SaveCommitFails(r)
    \/ SaveConnectFails(r)
    \/ ReleaseUserLock(r)

FairSpec == Spec /\ \A r \in Requests : WF_vars(Handle(r))

\* ------------------------------------------------------------------------
\* ApiKeyManager
\* ------------------------------------------------------------------------

\* get_current_client, lines 30-32: a client on keys[current_index] (Python
\* counts the list from 0).
get_current_client == [api_key |-> keys[current_index + 1]]

\* A caller calls get_current_client.
GetCurrentClient(t) ==
    /\ kpc[t] = "idle"
    /\ kcall' = [kcall EXCEPT ![t] = "get_current_client"]
    /\ kret' = [kret EXCEPT ![t] = get_current_client]
    /\ kpc' = [kpc EXCEPT ![t] = "done"]
    /\ UNCHANGED <<current_index, key_lock, kproduced>>
    /\ UNCHANGED <<chat_vars, filter_vars>>

\* rotate_to_next_key, line 35: with self.lock (blocks while another caller
\* holds it).
RotateAcquire(t) ==
    /\ kpc[t] = "idle"
    /\ key_lock = 0
    /\ key_lock' = t
    /\ kcall' = [kcall EXCEPT ![t] = "rotate_to_next_key"]
    /\ kpc' = [kpc EXCEPT ![t] = "advance"]
    /\ UNCHANGED <<current_index, kproduced, kret>>
    /\ UNCHANGED <<chat_vars, filter_vars>>

\* rotate_to_next_key, line 36: the index moves on by one, modulo the number
\* of keys.
RotateAdvance(t) ==
    /\ kpc[t] = "advance"
    /\ current_index' = (current_index + 1) % Len(keys)
    /\ kproduced' = [kproduced EXCEPT ![t] = current_index']
    /\ kpc' = [kpc EXCEPT ![t] = "unlock"]
    /\ UNCHANGED <<key_lock, kcall, kret>>
    /\ UNCHANGED <<chat_vars, filter_vars>>

\* rotate_to_next_key, end of the with self.lock block (after line 37).
RotateRelease(t) ==
    /\ kpc[t] = "unlock"
    /\ key_lock' = 0
    /\ kpc' = [kpc EXCEPT ![t] = "return"]
    /\ UNCHANGED <<current_index, kcall, kproduced, kret>>
    /\ UNCHANGED <<chat_vars, filter_vars>>

\* rotate_to_next_key, line 38: return self.get_current_client(), which
\* reads current_index again, the lock no longer held.
RotateReturn(t) ==
    /\ kpc[t] = "return"
    /\ kret' = [kret EXCEPT ![t] = get_current_client]
    /\ kpc' = [kpc EXCEPT ![t] = "done"]
    /\ UNCHANGED <<current_index, key_lock, kcall, kproduced>>
    /\ UNCHANGED <<chat_vars, filter_vars>>

NextKeys ==
    \E t \in KeyCallers :
        \/ GetCurrentClient(t)
        \/ RotateAcquire(t)
        \/ RotateAdvance(t)
        \/ RotateRelease(t)
        \/ RotateReturn(t)

\* MaxKeyCalls concurrent calls of the key manager's two methods.
SpecKeys == Init /\ [][NextKeys]_vars

\* ------------------------------------------------------------------------
\* The emoji filter on its own
\* ------------------------------------------------------------------------

\* The characters of the texts given to the filter: two emoji of
\* EMOJI_PATTERN (U+1F600, U+1F525), the emoji of RANDOM_EMOJIS that the
\* pattern does not cover (U+1F97A), a space, a line feed and "a".
FilterAlphabet == {128512, 128293, 129402, 32, 10, 97}

FilterTexts == UNION {[1..n -> FilterAlphabet] : n \in 0..MaxLen}

InitFilter ==
    /\ ChatInit
    /\ KeyManagerInit
    /\ fpc = "input"
    /\ fx \in FilterTexts
    /\ fy = None
    /\ fz = None

\* strip_emojis(fx)
StripOnce ==
    /\ fpc = "input"
    /\ fy' = strip_emojis(fx)
    /\ fpc' = "once"
    /\ UNCHANGED <<fx, fz>>
    /\ UNCHANGED <<chat_vars, key_vars>>

\* strip_emojis applied to its own result
StripTwice ==
    /\ fpc = "once"
    /\ fz' = strip_emojis(fy)
    /\ fpc' = "twice"
    /\ UNCHANGED <<fx, fy>>
    /\ UNCHANGED <<chat_vars, key_vars>>

NextFilter == StripOnce \/ StripTwice

SpecFilter == InitFilter /\ [][NextFilter]_vars

\* ------------------------------------------------------------------------
\* Properties
\* ------------------------------------------------------------------------

\* Request r is inside the with user_lock block of handle_chat.
InCritical(r) == pc[r] \in {"load", "loaded", "generating", "save", "release"}

\* Request r has run one of the three reply paths to its end.
Replied(r) == audit[r].reply # None

\* The message of the last CHATBOT turn of a history, None when there is none.
LastAgentText(history) ==
    LET bots == {i \in 1..Len(history) : history[i].role # "USER"}
    IN  IF bots = {} THEN None ELSE history[SetMax(bots)].message

\* The history stored for a user when the process starts.
InitialHistory(u) ==
    IF InitialRows[u] = <<>> THEN <<>> ELSE InitialRows[u][1].history

\* The turns of the requests of order that have saved, in that order.
RECURSIVE SavedTurns(_)
SavedTurns(order) ==
    IF order = <<>> THEN <<>>
    ELSE LET r == Head(order)
         IN  (IF audit[r].save = "saved"
              THEN <<Turn("USER", user_message[r]),
                     Turn("CHATBOT", audit[r].reply)>>
              ELSE <<>>) \o SavedTurns(Tail(order))

\* The row Y starts with is a row the program writes: X's requests reach it.
SeedRowReached == db[UID_X] = InitialRows[UID_Y] /\ db_by[UID_X] = db_by[UID_Y]

\* C1: for every user id at most one request is inside the section guarded
\* by that user's lock, and the handle a request took from user_locks is
\* still the one user_locks holds for its user id (created once, never
\* replaced or removed).
C1_MutualExclusion ==
    /\ \A r1, r2 \in Requests :
        (r1 # r2 /\ InCritical(r1) /\ InCritical(r2))
            => user_id[r1] # user_id[r2]
    /\ \A r \in Requests :
        user_lock[r] # 0 =>
            /\ user_id[r] \in DOMAIN user_locks
            /\ user_locks[user_id[r]] = user_lock[r]

\* C1 witness: one request holds a user's lock while another request for
\* the same user id waits for it.
C1_Witness ==
    \E r1, r2 \in Requests :
        /\ r1 # r2
        /\ user_id[r1] = user_id[r2]
        /\ InCritical(r1)
        /\ pc[r2] = "acquire"
        /\ user_lock[r1] = user_lock[r2]

\* C2: while no store call for a user has failed, (a) a request that has
\* loaded and not yet saved holds exactly the stored session (nobody saved
\* in between), and one about to save holds the stored history plus its own
\* two turns, and (b) the stored history is the initial history followed by
\* the two turns of every request that saved, in the order in which the
\* requests acquired the lock: 2n turns after n requests.
C2_NoLostUpdate ==
    \A u \in StoredUsers :
        u \notin store_failed =>
            /\ \A r \in Requests :
                (user_id[r] = u /\ pc[r] \in {"loaded", "generating"})
                    => user_session[r] = get_user_history(db[u])
            /\ \A r \in Requests :
                (user_id[r] = u /\ pc[r] = "save")
                    => user_session[r].history =
                          get_user_history(db[u]).history
                              \o <<Turn("USER", user_message[r]),
                                   Turn("CHATBOT", audit[r].reply)>>
            /\ get_user_history(db[u]).history =
                  InitialHistory(u) \o SavedTurns(acq_order[u])
            /\ Len(get_user_history(db[u]).history) =
                  Len(InitialHistory(u))
                    + 2 * Cardinality({r \in Requests :
                            user_id[r] = u /\ audit[r].save = "saved"})

\* C2 witness: two requests for one user id have both saved, no store call
\* failing, and the stored history has grown by their four turns, the turns
\* of the request that acquired the lock first coming first.
C2_Witness ==
    \E u \in StoredUsers :
        /\ u \notin store_failed
        /\ Len(acq_order[u]) = 2
        /\ \A i \in 1..2 : audit[acq_order[u][i]].save = "saved"
        /\ Len(db[u][1].history) = Len(InitialHistory(u)) + 4
        /\ SubSeq(db[u][1].history, Len(InitialHistory(u)) + 1,
                  Len(InitialHistory(u)) + 2)
              = <<Turn("USER", user_message[acq_order[u][1]]),
                  Turn("CHATBOT", audit[acq_order[u][1]].reply)>>

\* The text of the AGENT turn of the k-th stored pair of turns of user u.
StoredAgentText(u, k) == db[u][1].history[2 * k].message

\* C3: of two adjacent AGENT turns of a stored history that were both
\* appended by generate_ia_response, exactly one contains an emoji
\* (contains_emoji).
C3_EmojiAlternation ==
    \A u \in StoredUsers :
        \A k \in 1..(Len(db_by[u]) - 1) :
            (db_by[u][k] = "generated" /\ db_by[u][k + 1] = "generated")
                => contains_emoji(StoredAgentText(u, k))
                      # contains_emoji(StoredAgentText(u, k + 1))

\* C4: in every stored session emoji_last_message is true exactly when the
\* last AGENT turn of the stored history contains an emoji (contains_emoji),
\* and the session loaded for a user without a row is the empty one.
C4_FlagInvariant ==
    /\ \A u \in StoredUsers :
        db[u] # <<>> =>
            (db[u][1].emoji_last_message
                <=> contains_emoji(LastAgentText(db[u][1].history)))
    /\ \A r \in Requests :
        (pc[r] = "loaded" /\ db[user_id[r]] = <<>>)
            => user_session[r] = default_history

\* C5: a request that loaded an empty history returns the opening line with
\* success status, does not call the provider, and leaves in its session
\* exactly the USER turn and the opening line as AGENT turn, whatever the
\* message.
C5_FirstTurn ==
    \A r \in Requests :
        (pc[r] = "done" /\ audit[r].loaded = <<>>) =>
            /\ response[r] = Response("reply", 200, FIRST_MESSAGE_RESPONSE)
            /\ audit[r].provider_calls = 0
            /\ user_session[r].history =
                  <<Turn("USER", user_message[r]),
                    Turn("CHATBOT", FIRST_MESSAGE_RESPONSE)>>

\* C6: the session a first request saves has emoji_last_message = TRUE, and
\* the generated reply to the user's second request contains no emoji.
C6_FirstTurnScenario ==
    /\ \A r \in Requests :
        (audit[r].path = "first" /\ audit[r].save = "saved")
            => user_session[r].emoji_last_message
    /\ \A r \in Requests :
        (audit[r].path = "generated" /\ Replied(r)
            /\ Len(audit[r].loaded) = 2)
            => ~contains_emoji(audit[r].reply)

\* C7: a request that loaded a non-empty history and whose message contains
\* a trigger returns, with success status, the response of the first such
\* trigger of the table, appends it as AGENT turn as it is, and does not
\* call the provider.
C7_TriggerInterception ==
    \A r \in Requests :
        (/\ pc[r] = "done"
         /\ audit[r].loaded \notin {None, <<>>}
         /\ \E k \in 1..Len(PREDEFINED_RESPONSES) :
                IsSubstring(PREDEFINED_RESPONSES[k].trigger, user_message[r]))
        => \E k \in 1..Len(PREDEFINED_RESPONSES) :
            /\ IsSubstring(PREDEFINED_RESPONSES[k].trigger, user_message[r])
            /\ \A j \in 1..(k - 1) :
                ~IsSubstring(PREDEFINED_RESPONSES[j].trigger, user_message[r])
            /\ response[r] =
                  Response("reply", 200, PREDEFINED_RESPONSES[k].response)
            /\ LastAgentText(user_session[r].history) =
                  PREDEFINED_RESPONSES[k].response
            /\ audit[r].provider_calls = 0

FillerSet == {FILLERS[f] : f \in 1..Len(FILLERS)}

\* C8: when the candidate reply of generate_ia_response (the trimmed
\* provider text or a failure line) equals the last AGENT turn of the
\* loaded history, a filler takes its place and neither the reply returned
\* nor the AGENT turn appended is the repeated text.
C8_AntiRepeat ==
    \A r \in Requests :
        (/\ audit[r].path = "generated"
         /\ Replied(r)
         /\ audit[r].candidate = LastAgentText(audit[r].loaded))
        => /\ audit[r].filtered \in FillerSet
           /\ audit[r].reply # audit[r].candidate
           /\ LastAgentText(user_session[r].history) # audit[r].candidate

\* A word of the denylist occurs in text as a whole word, whatever the case
\* of its letters.
HasDenylistWord(text) ==
    \E k \in 1..Len(FORBIDDEN_WORDS) :
        LET word == FORBIDDEN_WORDS[k]
        IN  \E i \in 1..(Len(text) - Len(word) + 1) :
                /\ \A j \in 1..Len(word) : LowerChar(text[i + j - 1]) = word[j]
                /\ (i = 1 \/ ~IsWordChar(text[i - 1]))
                /\ (i + Len(word) > Len(text)
                        \/ ~IsWordChar(text[i + Len(word)]))

\* C9: when the candidate reply of generate_ia_response contains a word of
\* the denylist, a filler takes its place and the reply returned is not the
\* forbidden text.
C9_ForbiddenWordFilter ==
    \A r \in Requests :
        (/\ audit[r].path = "generated"
         /\ Replied(r)
         /\ HasDenylistWord(audit[r].candidate))
        => /\ audit[r].filtered \in FillerSet
           /\ audit[r].reply # audit[r].candidate
           /\ LastAgentText(user_session[r].history) # audit[r].candidate

\* C9 witness: a generated candidate with a denylist word, replaced.
C9_Witness ==
    \E r \in Requests :
        /\ audit[r].path = "generated"
        /\ Replied(r)
        /\ HasDenylistWord(audit[r].candidate)
        /\ audit[r].filtered \in FillerSet

\* C10: a request whose save_user_history failed, in the connection or in
\* the upsert/commit, still returns its computed reply with success status.
C10_SaveFailureSwallowed ==
    \A r \in Requests :
        (pc[r] = "done" /\ audit[r].save \in {"commit_failed", "connect_failed"})
            => response[r] = Response("reply", 200, audit[r].reply)

\* C11 - provider failures are absorbed: a request whose provider call
\* raised, be it NotFoundError or any other exception, ends with a 200 reply
\* whose text comes from the fixed fallback text of that failure, with the
\* USER turn and that AGENT turn appended to the session it loaded and
\* save_user_history run to its end on them, and the credential index is
\* where it was.
C11_ProviderFailureAbsorbed ==
    \A r \in Requests :
        (pc[r] = "done" /\ audit[r].outcome \in {"not_found", "error"}) =>
            /\ audit[r].candidate =
                    (IF audit[r].outcome = "not_found" THEN NOT_FOUND_REPLY
                     ELSE ERROR_REPLY)
            /\ response[r] = Response("reply", 200, audit[r].reply)
            /\ user_session[r].history =
                    audit[r].loaded
                        \o <<Turn("USER", user_message[r]),
                             Turn("CHATBOT", audit[r].reply)>>
            /\ audit[r].save \in {"saved", "commit_failed"}
            /\ current_index = 0

\* The bodies C12 speaks of, and the fixed response of each.
IsRejected(body) ==
    \/ body.kind \in {"empty", "invalid"}
    \/ /\ body.kind = "object"
       /\ \/ body.user_id \in {None, <<>>}
          \/ body.message \in {None, <<>>}
          \/ Lower(Strip(body.user_id)) \in IGNORED_USERS

RejectionOf(body) ==
    CASE body.kind = "empty" -> Response("no_data", 400, <<>>)
      [] body.kind = "invalid" -> Response("bad_json", 400, <<>>)
      [] OTHER ->
            IF body.user_id \in {None, <<>>} \/ body.message \in {None, <<>>}
            THEN Response("missing_params", 400, <<>>)
            ELSE Response("ignored", 200, <<>>)

\* C12 - rejected requests touch nothing: the step in which handle_chat reads
\* an empty body, a body that is not JSON, an object without user id or
\* message, or an object of an ignored user (trimmed, any case) ends the
\* request with the fixed response of that case and changes neither the lock
\* registry, nor any lock, nor any stored session, nor the credential index;
\* the request has loaded no session and called no provider, and does
\* nothing afterwards.
C12_RejectedTouchNothing ==
    [][\A r \in Requests :
        /\ (pc[r] = "idle" /\ pc'[r] # "idle" /\ IsRejected(audit'[r].body)) =>
                /\ pc'[r] = "done"
                /\ response'[r] = RejectionOf(audit'[r].body)
                /\ UNCHANGED <<user_locks, lock_owner, locks_dict_lock, db,
                               current_index, key_lock, user_lock,
                               user_session, acq_order>>
                /\ audit'[r].loaded = None
                /\ audit'[r].provider_calls = 0
                /\ audit'[r].path = "none"
        /\ (pc[r] = "done" /\ IsRejected(audit[r].body)) =>
                /\ UNCHANGED <<pc[r], response[r], audit[r], user_lock[r]>>
                /\ \A h \in DOMAIN lock_owner' : lock_owner'[h] # r
      ]_vars

\* Two requests were rejected, one as an ignored user whose id needed trimming
\* and lowering, one as invalid JSON, while the store holds a row.
C12_Witness ==
    \E r, q \in Requests :
        /\ pc[r] = "done" /\ pc[q] = "done"
        /\ audit[r].body.kind = "object"
        /\ audit[r].body.user_id = UID_IGNORED
        /\ audit[r].body.user_id \notin IGNORED_USERS
        /\ response[r] = Response("ignored", 200, <<>>)
        /\ audit[q].body.kind = "invalid"
        /\ response[q] = Response("bad_json", 400, <<>>)
        /\ db[UID_Y] # <<>>

\* Request r left the with user_lock block by an exception: its load raised
\* or the connection attempt of its save raised.
LeftByException(r) ==
    /\ pc[r] \in {"release", "done"}
    /\ user_lock[r] # 0
    /\ audit[r].loaded = None \/ audit[r].save = "connect_failed"

\* Request r holds a per-user lock.
HoldsUserLock(r) == \E h \in DOMAIN lock_owner : lock_owner[h] = r

\* C13 - the per-user lock is released on every exit path: a request neither
\* holds a per-user lock for ever nor waits for one for ever (it takes one at
\* most once, so it always comes to hold none again), whether it returns a
\* reply or an exception of the load or of the save takes it out of the with
\* block; that exception gives the generic server error; a request that has
\* ended holds no lock; and a request waiting for the lock of its user can
\* take it as soon as the other requests of that user have ended.
C13_LockReleased ==
    /\ \A r \in Requests : []<>(~HoldsUserLock(r) /\ pc[r] # "acquire")
    /\ [](\A r \in Requests :
            /\ pc[r] = "done" => ~HoldsUserLock(r)
            /\ LeftByException(r) =>
                    response[r] = Response("server_error", 500, <<>>)
            /\ (/\ pc[r] = "acquire"
                /\ \A q \in Requests \ {r} :
                        user_id[q] = user_id[r] => pc[q] = "done")
                    => ENABLED AcquireUserLock(r))

\* A request of a user ended by an exception after taking the lock, and a
\* later request of the same user is inside the with user_lock block.
C13_Witness ==
    \E r, q \in Requests :
        /\ r # q
        /\ user_id[q] = user_id[r]
        /\ pc[r] = "done"
        /\ LeftByException(r)
        /\ acq_order[user_id[r]] = <<r, q>>
        /\ InCritical(q)

\* C14 - requests of distinct users do not block each other: the registry
\* lock is held only while the dict is read or written and its holder can
\* always take its next step; a request that waits for or holds a per-user
\* lock does not hold the registry lock; a request waiting for the lock of
\* its user can take it whenever no request of that same user is inside the
\* with block, whatever the requests of other users are doing; and a request
\* inside the with block can always take its next step.
C14_DistinctUsersIndependent ==
    \A r \in Requests :
        /\ locks_dict_lock = r => pc[r] \in {"resolve", "unregistry"}
        /\ pc[r] = "resolve" => ENABLED ResolveLock(r)
        /\ pc[r] = "unregistry" => ENABLED ReleaseRegistry(r)
        /\ (pc[r] = "acquire" \/ InCritical(r)) => locks_dict_lock # r
        /\ (/\ pc[r] = "acquire"
            /\ \A q \in Requests \ {r} :
                    user_id[q] = user_id[r] => ~InCritical(q))
                => ENABLED AcquireUserLock(r)
        /\ InCritical(r) => ENABLED Handle(r)

\* A request of Y is waiting for the provider inside the with block of Y's
\* lock while a request of X is inside the with block of X's lock.
C14_Witness ==
    \E r, q \in Requests :
        /\ user_id[r] = UID_Y /\ user_id[q] = UID_X
        /\ pc[r] = "generating"
        /\ InCritical(q)
        /\ lock_owner[user_lock[r]] = r
        /\ lock_owner[user_lock[q]] = q
        /\ user_lock[r] # user_lock[q]

\* C15 - the credential advance is atomic: the index is always one of
\* 0..n-1, and every rotate_to_next_key call that has returned returned the
\* client of the index that this call set.
C15_AtomicAdvance ==
    /\ current_index \in 0..(NumKeys - 1)
    /\ \A t \in KeyCallers :
            (kpc[t] = "done" /\ kcall[t] = "rotate_to_next_key") =>
                kret[t] = [api_key |-> keys[kproduced[t] + 1]]

\* A history of pairs: even length, a USER turn at every odd place and an
\* AGENT turn (role CHATBOT) at every even place.
IsPairs(history) ==
    /\ Len(history) % 2 = 0
    /\ \A i \in 1..Len(history) :
            history[i].role = (IF i % 2 = 1 THEN "USER" ELSE "CHATBOT")

\* C16 - the history is append-only, in pairs: every request that took one of
\* the three reply paths and has ended appended to the history it loaded
\* exactly the USER turn of its message and the AGENT turn of the text it
\* returned to its caller, nothing else changed; and every stored history is
\* made of USER, AGENT pairs.
C16_AppendOnlyPairs ==
    /\ \A r \in Requests :
            (pc[r] = "done" /\ audit[r].path # "none") =>
                /\ response[r].kind = "reply"
                /\ user_session[r].history =
                        audit[r].loaded
                            \o <<Turn("USER", user_message[r]),
                                 Turn("CHATBOT", response[r].text)>>
    /\ \A u \in StoredUsers :
            db[u] # <<>> => IsPairs(db[u][1].history)

\* C17 - the emoji filter is idempotent: for every text over FilterAlphabet
\* of at most MaxLen characters, strip_emojis of strip_emojis of the text is
\* strip_emojis of the text, and contains_emoji finds nothing in it.
C17_FilterIdempotent ==
    /\ fpc \in {"once", "twice"} => ~contains_emoji(fy)
    /\ fpc = "twice" => fz = fy

\* The filter has run twice on "a" followed by a space and an emoji: the
\* removal of the emoji left a space at the end, which the trim removed.
C17_Witness ==
    /\ fpc = "twice"
    /\ fx = <<97, 32, 128512>>
    /\ fy = <<97>>
    /\ fz = <<97>>

\* C18 - no forbidden word reaches the user on the generated path: the text
\* that generate_ia_response returns and appends, after the filler
\* substitution and after the emoji was appended or stripped, contains no
\* word of the denylist as a whole word.
C18_NoForbiddenWordReturned ==
    \A r \in Requests :
        (audit[r].path = "generated" /\ Replied(r)) =>
            /\ ~HasDenylistWord(audit[r].reply)
            /\ ~HasDenylistWord(LastAgentText(user_session[r].history))

\* C19 - no textual repeat after post-processing: the AGENT turn that
\* generate_ia_response appends is never the text of the AGENT turn just
\* before it in the history, whichever path wrote that one.
C19_NoRepeatAfterPostProcessing ==
    \A r \in Requests :
        (audit[r].path = "generated" /\ Replied(r)) =>
            /\ audit[r].reply # LastAgentText(audit[r].loaded)
            /\ LastAgentText(user_session[r].history)
                    # LastAgentText(audit[r].loaded)

\* C20 - no empty reply: the text that generate_ia_response returns and
\* appends is never empty, whatever the provider answered and whatever
\* emoji_last_message was.
C20_NoEmptyReply ==
    \A r \in Requests :
        (audit[r].path = "generated" /\ Replied(r)) =>
            /\ audit[r].reply # <<>>
            /\ LastAgentText(user_session[r].history) # <<>>

====
